---- MODULE Spec2Model ----
(***************************************************************************)
(* folly::detail::Core<T> (folly/futures/detail/Core.h): the shared state  *)
(* of a Promise/Future pair, as a state machine.                           *)
(*                                                                         *)
(* Three threads act on one heap-allocated core: the Promise thread "P",   *)
(* the Future thread "C" and an executor worker "E".  Every access to an   *)
(* atomic (the FSM state word, active_, attached_) and every critical      *)
(* section (FSM::updateState, the executor and interrupt spin locks) is    *)
(* one step; the threads interleave between steps.                         *)
(***************************************************************************)
EXTENDS Integers, Sequences, FiniteSets, TLC

\* ---------------------------------------------------------------- bounds
\* priorities passed to setExecutor range over 0..MaxPriority
MaxPriority == 1
\* calls of raise() the Future thread makes
MaxRaise == 2
\* calls of setInterruptHandler() the Promise thread makes
MaxSetHandler == 2
\* input futures of a variadic collect: sizeof...(Ts)
NInputs == 2

\* ------------------------------------------------------------- constants
\* std::atomic<unsigned char> attached_: arithmetic is modulo 2^8
AttachedModulus == 256
\* attached_ of a default-constructed core
InitialAttached == 2
\* priority_ of a fresh core
InitialPriority == -1

\* ---------------------------------------------------------------- values
Threads == {"P", "C", "E"}
Handles == {"P", "C"}

\* enum class State
States == {"Start", "OnlyResult", "OnlyCallback", "Armed", "Done"}

None == "none"
\* the Try<T> values a producer passes to setResult
Tries == {"Value", "Error"}
BrokenPromise == "BrokenPromise"
\* Try<T>(exception_wrapper(std::current_exception())) in doCallback's catch
AddFailed == "AddFailed"
CallbackThrew == "CallbackThrew"

\* the continuations F passed to setCallback: whether sizeof(LambdaBufHelper<F>)
\* <= lambdaBufSize, and whether calling it throws
Callbacks == {"small", "large", "smallThrows", "largeThrows"}
Fits(f) == f \in {"small", "smallThrows"}
Throws(f) == f \in {"smallThrows", "largeThrows"}

\* the Executor* passed to setExecutor: one that queues the job for its
\* worker (with one priority class, or several), one that runs it inside
\* add(), one whose add() throws
Executors == {"queue", "queuePrio", "inline", "reject"}
Kind(x) == IF x = "queuePrio" THEN "queue" ELSE x
\* x->getNumPriorities() == 1
OnePriority(x) == x # "queuePrio"
Priorities == 0..MaxPriority

\* exception_wrapper payloads of raise(), and interrupt handlers
Payloads == {"x1", "x2"}
HandlerFns == {"h1", "h2"}

\* doCallback's locals x and priority before they are assigned
NoSnapshot == [x |-> None, priority |-> None]

\* the ambient RequestContext each thread starts with
InitialContext == [t \in Threads |-> IF t = "P" THEN "ctxP" ELSE IF t = "C" THEN "ctxC" ELSE "ctxE"]

VARIABLES
  fsm_,              \* FSM<State> fsm_
  attached_,         \* std::atomic<unsigned char> attached_
  active_,           \* std::atomic<bool> active_
  result_,           \* folly::Optional<Try<T>> result_
  callback_,         \* std::function<void(Try<T>&&)> callback_
  lambdaBuf_,        \* the in-place LambdaBufHelper: "raw", "live", "destroyed"
  context_,          \* std::shared_ptr<RequestContext> context_
  executor_,         \* Executor* executor_
  priority_,         \* int8_t priority_
  interrupt_,        \* std::unique_ptr<exception_wrapper> interrupt_
  interruptHandler_, \* std::function<...> interruptHandler_
  alive,             \* FALSE once `delete this` has run
  pc,                \* each thread's position
  op,                \* the Core method each thread is inside
  state,             \* FSM_START's local `state` of each thread
  snapshot,          \* doCallback's locals x, priority of each thread
  ambient,           \* each thread's ambient RequestContext
  queue,             \* jobs the executor has accepted and not yet run
  detached,          \* the handles whose detachOne has run
  thrown,            \* the exception that escaped each thread's last call
  calls,             \* history: every invocation of callback_
  dispatched,        \* history: the threads whose maybeCallback did Armed->Done
  given,             \* history: every store to result_ by an ingress
  submitted,         \* history: the jobs handed to the executor
  destroyed,         \* history: how many times `delete this` ran
  everBound,         \* history: setExecutor has been called
  activation,        \* history: "unarmed"; once Armed, "active" or "inactive" as
                     \* active_ was then; "activated" by a later active_ = true
  handlerCalls,      \* history: every invocation of an interrupt handler
  raises,            \* history: number of raise() calls
  handlerSets,       \* history: number of setInterruptHandler() calls
  firstRaise,        \* history: the payload of the first raise()
  firstInterruptOp,  \* history: which of raise / setInterruptHandler came first
  raising,           \* the argument e of the raise() that holds interruptLock_
  ctxKind,           \* which context the collect callbacks share, if any
  inputs,            \* the Try each input future completes with
  cbpc,              \* each input callback's position
  threw,             \* std::atomic<bool> threw
  results,           \* std::tuple<...> results, by slot
  holders,           \* who holds a std::shared_ptr to the context
  ctxAlive,          \* FALSE once the context's destructor has run
  fulfilled          \* history: every setValue / setException on Promise p

coreVars == <<fsm_, attached_, active_, result_, callback_, lambdaBuf_, context_,
              executor_, priority_, interrupt_, interruptHandler_, alive>>
threadVars == <<pc, op, state, snapshot, ambient, queue, detached, thrown>>
historyVars == <<calls, dispatched, given, submitted, destroyed, everBound,
                 activation, handlerCalls, raises, handlerSets, firstRaise,
                 firstInterruptOp, raising>>
\* the history of the interrupt channel, and the raise() in progress
interruptHistory == <<handlerCalls, raises, handlerSets, firstRaise, firstInterruptOp,
                      raising>>
\* a variadic collect context and the callbacks that share it
collectVars == <<ctxKind, inputs, cbpc, threw, results, holders, ctxAlive, fulfilled>>
vars == <<coreVars, threadVars, historyVars, collectVars>>

\* ------------------------------------------------------------ construction
\* no collect context exists beside the core
NoCollect ==
  /\ ctxKind = None
  /\ inputs = <<>>
  /\ cbpc = <<>>
  /\ threw = FALSE
  /\ results = <<>>
  /\ holders = {}
  /\ ctxAlive = FALSE
  /\ fulfilled = <<>>

\* what both constructors leave to the member initialisers (lines 335-346),
\* and the threads and the history before any call
InitCommon ==
  /\ active_ = TRUE
  /\ callback_ = None
  /\ lambdaBuf_ = "raw"
  /\ context_ = None
  /\ executor_ = None
  /\ priority_ = InitialPriority
  /\ interrupt_ = None
  /\ interruptHandler_ = None
  /\ alive = TRUE
  /\ op = [t \in Threads |-> None]
  /\ state = [t \in Threads |-> None]
  /\ snapshot = [t \in Threads |-> NoSnapshot]
  /\ ambient = InitialContext
  /\ queue = 0
  /\ thrown = [t \in Threads |-> None]
  /\ calls = <<>>
  /\ dispatched = <<>>
  /\ submitted = <<>>
  /\ destroyed = 0
  /\ everBound = FALSE
  /\ activation = "unarmed"
  /\ handlerCalls = <<>>
  /\ raises = 0
  /\ handlerSets = 0
  /\ firstRaise = None
  /\ firstInterruptOp = None
  /\ raising = None

\* Core() {}: Start, two handles attached, no result
InitDefault ==
  /\ fsm_ = "Start"
  /\ attached_ = InitialAttached
  /\ result_ = None
  /\ given = <<>>
  /\ pc = [t \in Threads |-> "idle"]
  /\ detached = {}
  /\ InitCommon

\* explicit Core(Try<T>&& t): OnlyResult, attached_(1), the Future handle only
InitFromTry ==
  /\ fsm_ = "OnlyResult"
  /\ attached_ = 1
  /\ \E v \in Tries : result_ = v /\ given = <<[try |-> v, by |-> "Core"]>>
  /\ pc = [t \in Threads |-> IF t = "P" THEN "gone" ELSE "idle"]
  /\ detached = {"P"}
  /\ InitCommon

Init == (InitDefault \/ InitFromTry) /\ NoCollect

\* ----------------------------------------------------------------- helpers
\* FSM::getState(): the atomic load of the state word (FSM_START)
getState == fsm_

\* FSM::updateState(A, B, action): under the FSM's lock the transition and its
\* action happen if and only if the state is still A
updateState(A) == fsm_ = A

\* a hasResult() whose switch lacks case State::Armed
hasResultNoArmed == getState \in {"OnlyResult", "Done"}

\* bool hasResult() const
hasResult == getState \in {"OnlyResult", "Armed", "Done"}

\* a thread may start a call: it holds a handle that has not detached
CanCall(t) == pc[t] = "idle" /\ t \notin detached

\* where a thread goes when maybeCallback() returns to the method it is in
AfterMaybeCallback(o) ==
  IF o \in {"detachFuture", "detachPromise"} THEN "detachOne" ELSE "idle"

\* thread t goes to `next` inside method o, with FSM_START's local `state` = s
Goto(t, o, next, s) ==
  /\ pc' = [pc EXCEPT ![t] = next]
  /\ op' = [op EXCEPT ![t] = IF next \in {"idle", "gone"} THEN None ELSE o]
  /\ state' = [state EXCEPT ![t] = s]

\* an exception leaves the method the thread is in
Throw(t, e) ==
  /\ pc' = [pc EXCEPT ![t] = "idle"]
  /\ op' = [op EXCEPT ![t] = None]
  /\ state' = [state EXCEPT ![t] = None]
  /\ thrown' = [thrown EXCEPT ![t] = e]

\* callback_(std::move(*result_)) on thread t, from the place `from` of
\* doCallback, with LambdaBufHelper::operator() destroying the in-place
\* functor on scope exit
InvokeCallback(t, from, try) ==
  /\ calls' = Append(calls, [by |-> t, from |-> from, try |-> try, ctx |-> ambient[t]])
  /\ lambdaBuf_' = IF Fits(callback_) THEN "destroyed" ELSE lambdaBuf_

\* ------------------------------------------------------ result ingress
\* a setResult whose Start case goes straight to Armed
SetResultTargetSkipping(s) == "Armed"

\* the state setResult's FSM_UPDATE goes to from the state s it read: Start ->
\* OnlyResult (line 186), OnlyCallback -> Armed (line 190)
SetResultTarget(s) == IF s = "Start" THEN "OnlyResult" ELSE "Armed"

\* a setResult that refuses a second call only in OnlyResult
SetResultReadLax(t, o) ==
  IF getState \in {"Start", "OnlyCallback", "Armed", "Done"}
  THEN /\ Goto(t, o, "fsm_update", getState)
       /\ thrown' = [thrown EXCEPT ![t] = None]
  ELSE Throw(t, "logic_error")

\* FSM_START of setResult (lines 184-198): auto state = fsm_.getState() and
\* the switch on it; method o is setResult, or detachPromise calling it
SetResultRead(t, o) ==
  IF getState \in {"Start", "OnlyCallback"}
  THEN /\ Goto(t, o, "fsm_update", getState)
       /\ thrown' = [thrown EXCEPT ![t] = None]
  ELSE \* throw std::logic_error("setResult called twice")
       Throw(t, "logic_error")

\* void setResult(Try<T>&& t), entered by the Promise thread
SetResult(t) ==
  /\ t = "P" /\ CanCall(t)
  /\ SetResultRead(t, "setResult")
  /\ UNCHANGED <<coreVars, snapshot, ambient, queue, detached, historyVars, collectVars>>

\* the loop of FSM_START re-reading the state after a failed update
SetResultRetry(t) ==
  /\ pc[t] = "fsm_read" /\ op[t] \in {"setResult", "detachPromise"}
  /\ SetResultRead(t, op[t])
  /\ UNCHANGED <<coreVars, snapshot, ambient, queue, detached, historyVars, collectVars>>

\* FSM_UPDATE(fsm_, OnlyResult | Armed, setResult_) (lines 186, 190): under
\* the FSM's lock, if the state is still the one read, result_ = std::move(t)
\* and the state advances; then maybeCallback() if transitionToArmed.
\* The Try is the caller's argument; detachPromise passes BrokenPromise.
SetResultUpdate(t) ==
  /\ pc[t] = "fsm_update" /\ op[t] \in {"setResult", "detachPromise"}
  /\ IF updateState(state[t])
     THEN /\ \E v \in (IF op[t] = "detachPromise" THEN {BrokenPromise} ELSE Tries) :
               /\ result_' = v
               /\ given' = Append(given, [try |-> v, by |-> op[t]])
          /\ fsm_' = SetResultTarget(state[t])
          /\ activation' = IF state[t] = "Start" THEN activation
                            ELSE IF active_ THEN "active" ELSE "inactive"
          /\ IF state[t] = "Start"
             THEN Goto(t, op[t], AfterMaybeCallback(op[t]), None)
             ELSE Goto(t, op[t], "mc_read", None)
     ELSE /\ Goto(t, op[t], "fsm_read", None)
          /\ UNCHANGED <<result_, given, fsm_, activation>>
  /\ UNCHANGED <<attached_, active_, callback_, lambdaBuf_, context_, executor_,
                 priority_, interrupt_, interruptHandler_, alive>>
  /\ UNCHANGED <<snapshot, ambient, queue, detached, thrown>>
  /\ UNCHANGED <<calls, dispatched, submitted, destroyed, everBound,
                 interruptHistory, collectVars>>

\* ---------------------------------------------------- callback ingress
\* FSM_START of setCallback (lines 157-171)
SetCallbackRead(t, o) ==
  IF getState \in {"Start", "OnlyResult"}
  THEN /\ Goto(t, o, "fsm_update", getState)
       /\ thrown' = [thrown EXCEPT ![t] = None]
  ELSE \* throw std::logic_error("setCallback called twice")
       Throw(t, "logic_error")

\* template <typename F> void setCallback(F func), entered by the Future thread
SetCallback(t) ==
  /\ t = "C" /\ CanCall(t)
  /\ SetCallbackRead(t, "setCallback")
  /\ UNCHANGED <<coreVars, snapshot, ambient, queue, detached, historyVars, collectVars>>

SetCallbackRetry(t) ==
  /\ pc[t] = "fsm_read" /\ op[t] = "setCallback"
  /\ SetCallbackRead(t, op[t])
  /\ UNCHANGED <<coreVars, snapshot, ambient, queue, detached, historyVars, collectVars>>

\* FSM_UPDATE(fsm_, OnlyCallback | Armed, setCallback_) (lines 144-155, 159,
\* 163): context_ = RequestContext::saveContext(); the functor goes into
\* lambdaBuf_ if it fits, else into callback_ itself
SetCallbackUpdate(t) ==
  /\ pc[t] = "fsm_update" /\ op[t] = "setCallback"
  /\ IF updateState(state[t])
     THEN /\ \E f \in Callbacks :
               /\ callback_' = f
               /\ lambdaBuf_' = IF Fits(f) THEN "live" ELSE lambdaBuf_
          /\ context_' = ambient[t]
          /\ fsm_' = IF state[t] = "Start" THEN "OnlyCallback" ELSE "Armed"
          /\ activation' = IF state[t] = "Start" THEN activation
                            ELSE IF active_ THEN "active" ELSE "inactive"
          /\ IF state[t] = "Start"
             THEN Goto(t, op[t], "idle", None)
             ELSE Goto(t, op[t], "mc_read", None)
     ELSE /\ Goto(t, op[t], "fsm_read", None)
          /\ UNCHANGED <<callback_, lambdaBuf_, context_, fsm_, activation>>
  /\ UNCHANGED <<attached_, active_, result_, executor_, priority_, interrupt_,
                 interruptHandler_, alive>>
  /\ UNCHANGED <<snapshot, ambient, queue, detached, thrown>>
  /\ UNCHANGED <<calls, dispatched, given, submitted, destroyed, everBound,
                 interruptHistory, collectVars>>

\* -------------------------------------------------------- maybeCallback
\* FSM_START of maybeCallback (lines 277-286): the state is read; anything
\* but Armed is FSM_BREAK
McRead(t) ==
  /\ pc[t] = "mc_read"
  /\ IF getState = "Armed"
     THEN Goto(t, op[t], "mc_active", getState)
     ELSE Goto(t, op[t], AfterMaybeCallback(op[t]), None)
  /\ UNCHANGED <<coreVars, snapshot, ambient, queue, detached, thrown, historyVars, collectVars>>

\* a maybeCallback that dispatches whatever active_ is
McActiveIgnored(t) ==
  /\ pc[t] = "mc_active"
  /\ Goto(t, op[t], "mc_update", state[t])
  /\ UNCHANGED <<coreVars, snapshot, ambient, queue, detached, thrown, historyVars, collectVars>>

\* case State::Armed: if (active_) (line 279)
McActive(t) ==
  /\ pc[t] = "mc_active"
  /\ IF active_
     THEN Goto(t, op[t], "mc_update", state[t])
     ELSE Goto(t, op[t], AfterMaybeCallback(op[t]), None)
  /\ UNCHANGED <<coreVars, snapshot, ambient, queue, detached, thrown, historyVars, collectVars>>

\* FSM_UPDATE2(fsm_, State::Done, []{}, [this]{ this->doCallback(); })
\* (line 280): only the thread whose update finds the state still Armed runs
\* doCallback; FSM_BREAK ends the loop either way
McUpdate(t) ==
  /\ pc[t] = "mc_update"
  /\ IF updateState(state[t])
     THEN /\ fsm_' = "Done"
          /\ dispatched' = Append(dispatched, t)
          /\ Goto(t, op[t], "dc_snapshot", None)
     ELSE /\ Goto(t, op[t], AfterMaybeCallback(op[t]), None)
          /\ UNCHANGED <<fsm_, dispatched>>
  /\ UNCHANGED <<attached_, active_, result_, callback_, lambdaBuf_, context_,
                 executor_, priority_, interrupt_, interruptHandler_, alive>>
  /\ UNCHANGED <<snapshot, ambient, queue, detached, thrown>>
  /\ UNCHANGED <<calls, given, submitted, destroyed, everBound, activation,
                 interruptHistory, collectVars>>

\* ----------------------------------------------------------- doCallback
\* RequestContext::setContext(context_) and the snapshot of executor_ and
\* priority_ under executorLock_ (lines 290-299)
DcSnapshot(t) ==
  /\ pc[t] = "dc_snapshot"
  /\ ambient' = [ambient EXCEPT ![t] = context_]
  /\ snapshot' = [snapshot EXCEPT ![t] = [x |-> executor_, priority |-> priority_]]
  /\ Goto(t, op[t], IF executor_ = None THEN "dc_call" ELSE "dc_attach", None)
  /\ UNCHANGED <<coreVars, queue, detached, thrown, historyVars, collectVars>>

\* if (x) ... else: no executor: callback_(std::move(*result_)) on the calling thread (line
\* 320); what the callback throws leaves doCallback and the method around it
DcCall(t) ==
  /\ pc[t] = "dc_call"
  /\ InvokeCallback(t, "inline", result_)
  /\ IF Throws(callback_)
     THEN Throw(t, "callback")
     ELSE /\ Goto(t, op[t], AfterMaybeCallback(op[t]), None)
          /\ UNCHANGED thrown
  /\ UNCHANGED <<fsm_, attached_, active_, result_, callback_, context_,
                 executor_, priority_, interrupt_, interruptHandler_, alive>>
  /\ UNCHANGED <<snapshot, ambient, queue, detached>>
  /\ UNCHANGED <<dispatched, given, submitted, destroyed, everBound, activation,
                 interruptHistory, collectVars>>

\* a doCallback that takes the extra attachment twice
DcAttachTwice(t) ==
  /\ pc[t] = "dc_attach"
  /\ attached_' = (attached_ + 2) % AttachedModulus
  /\ Goto(t, op[t], "dc_add", None)
  /\ UNCHANGED <<fsm_, active_, result_, callback_, lambdaBuf_, context_,
                 executor_, priority_, interrupt_, interruptHandler_, alive>>
  /\ UNCHANGED <<snapshot, ambient, queue, detached, thrown, historyVars, collectVars>>

\* ++attached_; // keep Core alive until executor did its thing (line 302)
DcAttach(t) ==
  /\ pc[t] = "dc_attach"
  /\ attached_' = (attached_ + 1) % AttachedModulus
  /\ Goto(t, op[t], "dc_add", None)
  /\ UNCHANGED <<fsm_, active_, result_, callback_, lambdaBuf_, context_,
                 executor_, priority_, interrupt_, interruptHandler_, alive>>
  /\ UNCHANGED <<snapshot, ambient, queue, detached, thrown, historyVars, collectVars>>

\* a doCallback that always submits with add()
SubmissionAlwaysPlain(snap) == [x |-> snap.x, how |-> "add", priority |-> None]

\* the call the job is submitted with (lines 304-314): add when the executor
\* has one priority, else addWithPriority with the snapshot's priority
Submission(snap) ==
  IF OnePriority(snap.x)
  THEN [x |-> snap.x, how |-> "add", priority |-> None]
  ELSE [x |-> snap.x, how |-> "addWithPriority", priority |-> snap.priority]

\* x->add(job) / x->addWithPriority(job, priority): a queueing executor keeps
\* the job for its worker, an inline one runs it before add returns, a
\* rejecting one throws without running it
DcAdd(t) ==
  /\ pc[t] = "dc_add"
  /\ submitted' = Append(submitted, Submission(snapshot[t]))
  /\ CASE Kind(snapshot[t].x) = "queue" ->
            /\ queue' = queue + 1
            /\ snapshot' = [snapshot EXCEPT ![t] = NoSnapshot]
            /\ Goto(t, op[t], AfterMaybeCallback(op[t]), None)
       [] Kind(snapshot[t].x) = "inline" ->
            /\ Goto(t, op[t], "job_call", None)
            /\ UNCHANGED <<queue, snapshot>>
       [] Kind(snapshot[t].x) = "reject" ->
            /\ Goto(t, op[t], "dc_catch", None)
            /\ UNCHANGED <<queue, snapshot>>
  /\ UNCHANGED <<coreVars, ambient, detached, thrown>>
  /\ UNCHANGED <<calls, dispatched, given, destroyed, everBound, activation,
                 interruptHistory, collectVars>>

\* ------------------------------------------------------------ detachOne
\* auto a = --attached_; if (a == 0) delete this; (lines 325-330)
DetachOne ==
  LET a == (attached_ - 1) % AttachedModulus IN
  /\ attached_' = a
  /\ alive' = IF a = 0 THEN FALSE ELSE alive
  /\ destroyed' = IF a = 0 THEN destroyed + 1 ELSE destroyed

\* ------------------------------------------------- the job of lines 305-308
\* callback_(std::move(*result_)) in the job, run inside add() by an inline
\* executor on the dispatching thread
InlineJobCall(t) ==
  /\ pc[t] = "job_call"
  /\ InvokeCallback(t, "job", result_)
  /\ Goto(t, op[t], IF Throws(callback_) THEN "job_detach_exc" ELSE "job_detach", None)
  /\ UNCHANGED <<fsm_, attached_, active_, result_, callback_, context_,
                 executor_, priority_, interrupt_, interruptHandler_, alive>>
  /\ UNCHANGED <<snapshot, ambient, queue, detached, thrown>>
  /\ UNCHANGED <<dispatched, given, submitted, destroyed, everBound, activation,
                 interruptHistory, collectVars>>

\* the same job taken from the queue by the executor's worker
WorkerJobCall(t) ==
  /\ t = "E" /\ pc[t] = "idle" /\ queue > 0
  /\ queue' = queue - 1
  /\ InvokeCallback(t, "job", result_)
  /\ Goto(t, "job", IF Throws(callback_) THEN "job_detach_exc" ELSE "job_detach", None)
  /\ thrown' = [thrown EXCEPT ![t] = None]
  /\ UNCHANGED <<fsm_, attached_, active_, result_, callback_, context_,
                 executor_, priority_, interrupt_, interruptHandler_, alive>>
  /\ UNCHANGED <<snapshot, ambient, detached>>
  /\ UNCHANGED <<dispatched, given, submitted, destroyed, everBound, activation,
                 interruptHistory, collectVars>>

\* SCOPE_EXIT { detachOne(); } of the job, which runs whether or not the
\* callback threw.  On the worker an exception then leaves the job; inside
\* an inline add() it leaves add() and reaches doCallback's catch (...)
JobDetach(t) ==
  /\ pc[t] \in {"job_detach", "job_detach_exc"}
  /\ DetachOne
  /\ IF t = "E"
     THEN /\ Goto(t, None, "idle", None)
          /\ thrown' = [thrown EXCEPT ![t] =
                          IF pc[t] = "job_detach_exc" THEN "callback" ELSE None]
          /\ UNCHANGED snapshot
     ELSE /\ IF pc[t] = "job_detach_exc"
             THEN /\ Goto(t, op[t], "dc_catch", None)
                  /\ UNCHANGED snapshot
             ELSE /\ Goto(t, op[t], AfterMaybeCallback(op[t]), None)
                  /\ snapshot' = [snapshot EXCEPT ![t] = NoSnapshot]
          /\ UNCHANGED thrown
  /\ UNCHANGED <<fsm_, active_, result_, callback_, lambdaBuf_, context_,
                 executor_, priority_, interrupt_, interruptHandler_>>
  /\ UNCHANGED <<ambient, queue, detached>>
  /\ UNCHANGED <<calls, dispatched, given, submitted, everBound, activation,
                 interruptHistory, collectVars>>

\* a catch block that hands the callback the result as it was stored
CaughtTryKeepsResult(snap) == result_

\* Try<T>(exception_wrapper(std::current_exception())) (line 316): what left
\* add() is the executor's own error when it rejects, and the callback's
\* exception when the executor ran the job inside add()
CaughtTry(snap) == IF Kind(snap.x) = "reject" THEN AddFailed ELSE CallbackThrew

\* catch (...) of doCallback (lines 315-318): whatever add() threw becomes
\* the result and the callback is invoked on the dispatching thread;
\* attached_ is left as ++attached_ made it
DcCatch(t) ==
  /\ pc[t] = "dc_catch"
  /\ LET e == CaughtTry(snapshot[t]) IN
       /\ result_' = e
       /\ InvokeCallback(t, "catch", e)
  /\ snapshot' = [snapshot EXCEPT ![t] = NoSnapshot]
  /\ IF Throws(callback_)
     THEN Throw(t, "callback")
     ELSE /\ Goto(t, op[t], AfterMaybeCallback(op[t]), None)
          /\ UNCHANGED thrown
  /\ UNCHANGED <<fsm_, attached_, active_, callback_, context_,
                 executor_, priority_, interrupt_, interruptHandler_, alive>>
  /\ UNCHANGED <<ambient, queue, detached>>
  /\ UNCHANGED <<dispatched, given, submitted, destroyed, everBound, activation,
                 interruptHistory, collectVars>>

\* ------------------------------------------------- activation, detaching
\* void deactivate() { active_ = false; }
Deactivate(t) ==
  /\ t = "C" /\ CanCall(t)
  /\ active_' = FALSE
  /\ thrown' = [thrown EXCEPT ![t] = None]
  /\ UNCHANGED <<fsm_, attached_, result_, callback_, lambdaBuf_, context_,
                 executor_, priority_, interrupt_, interruptHandler_, alive>>
  /\ UNCHANGED <<pc, op, state, snapshot, ambient, queue, detached, historyVars, collectVars>>

\* an activate() that sets active_ and does not call maybeCallback()
ActivateStoreOnly(t, o) ==
  /\ active_' = TRUE
  /\ activation' = IF activation = "inactive" THEN "activated" ELSE activation
  /\ Goto(t, o, AfterMaybeCallback(o), None)
  /\ thrown' = [thrown EXCEPT ![t] = None]
  /\ UNCHANGED <<fsm_, attached_, result_, callback_, lambdaBuf_, context_,
                 executor_, priority_, interrupt_, interruptHandler_, alive>>
  /\ UNCHANGED <<snapshot, ambient, queue, detached>>
  /\ UNCHANGED <<calls, dispatched, given, submitted, destroyed, everBound,
                 interruptHistory, collectVars>>

\* active_ = true; of activate(), which then enters maybeCallback(); method o
\* is activate, or detachFuture calling it
ActivateStore(t, o) ==
  /\ active_' = TRUE
  /\ activation' = IF activation = "inactive" THEN "activated" ELSE activation
  /\ Goto(t, o, "mc_read", None)
  /\ thrown' = [thrown EXCEPT ![t] = None]
  /\ UNCHANGED <<fsm_, attached_, result_, callback_, lambdaBuf_, context_,
                 executor_, priority_, interrupt_, interruptHandler_, alive>>
  /\ UNCHANGED <<snapshot, ambient, queue, detached>>
  /\ UNCHANGED <<calls, dispatched, given, submitted, destroyed, everBound,
                 interruptHistory, collectVars>>

\* void activate()
Activate(t) ==
  /\ t = "C" /\ CanCall(t)
  /\ ActivateStore(t, "activate")

\* a detachFuture() that releases the attachment without activate()
DetachFutureReleasesOnly(t) ==
  /\ t = "C" /\ CanCall(t)
  /\ Goto(t, "detachFuture", "detachOne", None)
  /\ thrown' = [thrown EXCEPT ![t] = None]
  /\ UNCHANGED <<coreVars, snapshot, ambient, queue, detached, historyVars, collectVars>>

\* void detachFuture() { activate(); detachOne(); }
DetachFuture(t) ==
  /\ t = "C" /\ CanCall(t)
  /\ ActivateStore(t, "detachFuture")

\* a detachPromise() that never stores BrokenPromise
DetachPromiseSilent(t) ==
  /\ t = "P" /\ CanCall(t)
  /\ Goto(t, "detachPromise", "detachOne", None)
  /\ thrown' = [thrown EXCEPT ![t] = None]
  /\ UNCHANGED <<coreVars, snapshot, ambient, queue, detached, historyVars, collectVars>>

\* void detachPromise(): if (!result_) setResult(Try<T>(BrokenPromise()));
\* then detachOne()
DetachPromise(t) ==
  /\ t = "P" /\ CanCall(t)
  /\ Goto(t, "detachPromise", IF result_ = None THEN "fsm_read" ELSE "detachOne", None)
  /\ thrown' = [thrown EXCEPT ![t] = None]
  /\ UNCHANGED <<coreVars, snapshot, ambient, queue, detached, historyVars, collectVars>>

\* detachOne() of detachFuture / detachPromise: the handle is gone
HandleDetachOne(t) ==
  /\ pc[t] = "detachOne"
  /\ DetachOne
  /\ detached' = detached \cup {t}
  /\ Goto(t, None, "gone", None)
  /\ UNCHANGED <<fsm_, active_, result_, callback_, lambdaBuf_, context_,
                 executor_, priority_, interrupt_, interruptHandler_>>
  /\ UNCHANGED <<snapshot, ambient, queue, thrown>>
  /\ UNCHANGED <<calls, dispatched, given, submitted, everBound, activation,
                 interruptHistory, collectVars>>

\* -------------------------------------------------------------- executor
\* void setExecutor(Executor* x, int8_t priority), under executorLock_
SetExecutor(t) ==
  /\ t = "C" /\ CanCall(t)
  /\ \E x \in Executors, p \in Priorities :
       /\ executor_' = x
       /\ priority_' = p
  /\ everBound' = TRUE
  /\ thrown' = [thrown EXCEPT ![t] = None]
  /\ UNCHANGED <<fsm_, attached_, active_, result_, callback_, lambdaBuf_, context_,
                 interrupt_, interruptHandler_, alive>>
  /\ UNCHANGED <<pc, op, state, snapshot, ambient, queue, detached>>
  /\ UNCHANGED <<calls, dispatched, given, submitted, destroyed, activation,
                 interruptHistory, collectVars>>

\* ------------------------------------------------------------- interrupts
\* a raise() that stores whenever there is no result, pending interrupt or not
RaiseStoresAlways == ~hasResult

\* if (!interrupt_ && !hasResult()) of raise() (line 250)
RaiseStores == interrupt_ = None /\ ~hasResult

\* void raise(exception_wrapper e) (lines 248-250): interruptLock_ is taken
\* and !interrupt_ && !hasResult() is evaluated; the state word is read
\* without the FSM's lock, so a setResult may land after this check
Raise(t) ==
  /\ t = "C" /\ CanCall(t)
  /\ raises < MaxRaise
  /\ raises' = raises + 1
  /\ firstInterruptOp' = IF firstInterruptOp = None THEN "raise" ELSE firstInterruptOp
  /\ \E e \in Payloads :
       /\ firstRaise' = IF raises = 0 THEN e ELSE firstRaise
       /\ IF RaiseStores
          THEN /\ raising' = e
               /\ Goto(t, "raise", "raise_store", None)
          ELSE /\ raising' = None
               /\ Goto(t, "raise", "idle", None)
  /\ thrown' = [thrown EXCEPT ![t] = None]
  /\ UNCHANGED coreVars
  /\ UNCHANGED <<snapshot, ambient, queue, detached>>
  /\ UNCHANGED <<calls, dispatched, given, submitted, destroyed, everBound,
                 activation, handlerSets, handlerCalls, collectVars>>

\* the body of raise()'s if (lines 251-254): interrupt_ is stored, a handler
\* already set is invoked with it, and the lock is released
RaiseStore(t) ==
  /\ pc[t] = "raise_store"
  /\ interrupt_' = raising
  /\ handlerCalls' =
       IF interruptHandler_ # None
       THEN Append(handlerCalls, [h |-> interruptHandler_, e |-> raising, by |-> t,
                                  hadResult |-> hasResult])
       ELSE handlerCalls
  /\ raising' = None
  /\ Goto(t, "raise", "idle", None)
  /\ UNCHANGED <<fsm_, attached_, active_, result_, callback_, lambdaBuf_, context_,
                 executor_, priority_, interruptHandler_, alive>>
  /\ UNCHANGED <<snapshot, ambient, queue, detached, thrown>>
  /\ UNCHANGED <<calls, dispatched, given, submitted, destroyed, everBound,
                 activation, raises, handlerSets, firstRaise, firstInterruptOp,
                 collectVars>>

\* a setInterruptHandler() that installs or invokes whatever hasResult() says
HandlerAcceptedAlways == TRUE

\* if (!hasResult()) of setInterruptHandler() (line 266)
HandlerAccepted == ~hasResult

\* void setInterruptHandler(fn), under interruptLock_ (lines 264-273), which a
\* raise() in progress holds.  The Promise thread is the one that sets the
\* result, so the state word does not change between its check and its body.
SetInterruptHandler(t) ==
  /\ t = "P" /\ CanCall(t)
  /\ raising = None
  /\ handlerSets < MaxSetHandler
  /\ handlerSets' = handlerSets + 1
  /\ firstInterruptOp' = IF firstInterruptOp = None THEN "setInterruptHandler"
                         ELSE firstInterruptOp
  /\ \E fn \in HandlerFns :
       IF HandlerAccepted
       THEN IF interrupt_ # None
            THEN /\ handlerCalls' = Append(handlerCalls, [h |-> fn, e |-> interrupt_, by |-> t,
                                                          hadResult |-> hasResult])
                 /\ UNCHANGED interruptHandler_
            ELSE /\ interruptHandler_' = fn
                 /\ UNCHANGED handlerCalls
       ELSE UNCHANGED <<interruptHandler_, handlerCalls>>
  /\ thrown' = [thrown EXCEPT ![t] = None]
  /\ UNCHANGED <<fsm_, attached_, active_, result_, callback_, lambdaBuf_, context_,
                 executor_, priority_, interrupt_, alive>>
  /\ UNCHANGED <<pc, op, state, snapshot, ambient, queue, detached>>
  /\ UNCHANGED <<calls, dispatched, given, submitted, destroyed, everBound,
                 activation, raises, firstRaise, raising, collectVars>>

\* ------------------------------------------------------------ the system
\* The rendezvous, the dispatch through every executor, activation and the
\* two detaches.  The interrupt channel, which meets the rest of the core
\* only in hasResult(), is composed with the rendezvous in SpecInterrupt.
Next ==
  \E t \in Threads :
    \/ SetResult(t)
    \/ SetResultRetry(t)
    \/ SetResultUpdate(t)
    \/ SetCallback(t)
    \/ SetCallbackRetry(t)
    \/ SetCallbackUpdate(t)
    \/ McRead(t)
    \/ McActive(t)
    \/ McUpdate(t)
    \/ DcSnapshot(t)
    \/ DcCall(t)
    \/ DcAttach(t)
    \/ DcAdd(t)
    \/ InlineJobCall(t)
    \/ WorkerJobCall(t)
    \/ JobDetach(t)
    \/ DcCatch(t)
    \/ Deactivate(t)
    \/ Activate(t)
    \/ DetachFuture(t)
    \/ DetachPromise(t)
    \/ HandleDetachOne(t)
    \/ SetExecutor(t)

Spec == Init /\ [][Next]_vars

\* raise and setInterruptHandler racing with the rendezvous and the detaches
\* of a core that has no executor bound
NextInterrupt ==
  \E t \in Threads :
    \/ Raise(t)
    \/ RaiseStore(t)
    \/ SetInterruptHandler(t)
    \/ SetResult(t)
    \/ SetResultRetry(t)
    \/ SetResultUpdate(t)
    \/ SetCallback(t)
    \/ SetCallbackRetry(t)
    \/ SetCallbackUpdate(t)
    \/ McRead(t)
    \/ McActive(t)
    \/ McUpdate(t)
    \/ DcSnapshot(t)
    \/ DcCall(t)
    \/ DetachFuture(t)
    \/ DetachPromise(t)
    \/ HandleDetachOne(t)

SpecInterrupt == Init /\ [][NextInterrupt]_vars

\* ============================================== variadic collect contexts
\* The callbacks that collectVariadicHelper registers on the inputs share one
\* context; each runs on the thread that completes its input.  Every access
\* to the atomic `threw` is one step, and so is the release of a
\* shared_ptr, whose last release runs the context's destructor.
Inputs == 1..NInputs
Slots == 0..(NInputs - 1)
\* the function that made the context holds it while it registers the callbacks
Creator == 0
\* a default-constructed tuple element
EmptySlot == [tag |-> "empty", of |-> 0]
\* the Try input i can complete with
InputTries(i) == {[tag |-> k, of |-> i] : k \in Tries}
\* t.value() and t.exception() of a Try
value(t) == [tag |-> "value", of |-> t.of]
exception(t) == [tag |-> "exception", of |-> t.of]

\* a helper that numbers the slots from the tail of the pack
SlotIndexFromTail(n, tail) == tail

\* sizeof...(Ts) - sizeof...(TTail) - 1 (line 399): the slot of the head
\* that has `tail` inputs after it, of n
SlotIndex(n, tail) == n - tail - 1

\* the slot the callback of input i writes: input i is the head with
\* NInputs - i inputs after it
SlotOf(i) == SlotIndex(NInputs, NInputs - i)

\* the context as its constructor leaves it and the callbacks as
\* collectVariadicHelper registers them (lines 388-403).  Neither constructor
\* initialises a member: `threw` of CollectVariadicContext starts with
\* whatever the memory holds
InitCollect ==
  /\ InitDefault
  /\ ctxKind \in {"CollectAll", "Collect"}
  /\ inputs \in {f \in [Inputs -> UNION {InputTries(i) : i \in Inputs}] :
                   \A i \in Inputs : f[i] \in InputTries(i)}
  /\ cbpc = [i \in Inputs |-> "pending"]
  /\ threw \in IF ctxKind = "Collect" THEN BOOLEAN ELSE {FALSE}
  /\ results = [k \in Slots |-> EmptySlot]
  /\ holders = {Creator} \cup Inputs
  /\ ctxAlive = TRUE
  /\ fulfilled = <<>>

\* the rest of the module's state, which the collect callbacks do not touch
CollectFrame == UNCHANGED <<coreVars, threadVars, historyVars, ctxKind, inputs>>

\* CollectAllVariadicContext::setPartialResult<T, I>(t) (lines 352-355)
CollectAllSetPartialResult(i) ==
  /\ ctxKind = "CollectAll" /\ cbpc[i] = "pending"
  /\ results' = [results EXCEPT ![SlotOf(i)] = inputs[i]]
  /\ cbpc' = [cbpc EXCEPT ![i] = "release"]
  /\ UNCHANGED <<threw, holders, ctxAlive, fulfilled>>
  /\ CollectFrame

\* CollectVariadicContext::setPartialResult<T, I>(t) up to its access to
\* `threw` (lines 369-373): threw.exchange(true) for an exception, the load
\* of threw for a value
CollectSetPartialResult(i) ==
  /\ ctxKind = "Collect" /\ cbpc[i] = "pending"
  /\ IF inputs[i].tag = "Error"
     THEN /\ threw' = TRUE
          /\ cbpc' = [cbpc EXCEPT ![i] = IF ~threw THEN "setException" ELSE "release"]
     ELSE /\ cbpc' = [cbpc EXCEPT ![i] = IF ~threw THEN "store" ELSE "release"]
          /\ UNCHANGED threw
  /\ UNCHANGED <<results, holders, ctxAlive, fulfilled>>
  /\ CollectFrame

\* p.setException(std::move(t.exception())) (line 371)
CollectSetException(i) ==
  /\ cbpc[i] = "setException"
  /\ fulfilled' = Append(fulfilled, [how |-> "setException", what |-> exception(inputs[i])])
  /\ cbpc' = [cbpc EXCEPT ![i] = "release"]
  /\ UNCHANGED <<threw, results, holders, ctxAlive>>
  /\ CollectFrame

\* std::get<I>(results) = std::move(t.value()) (line 374)
CollectStore(i) ==
  /\ cbpc[i] = "store"
  /\ results' = [results EXCEPT ![SlotOf(i)] = value(inputs[i])]
  /\ cbpc' = [cbpc EXCEPT ![i] = "release"]
  /\ UNCHANGED <<threw, holders, ctxAlive, fulfilled>>
  /\ CollectFrame

\* ~CollectAllVariadicContext() (lines 356-358) and ~CollectVariadicContext()
\* (lines 377-381), run by the holder that releases last
ContextDestructor ==
  /\ ctxAlive' = FALSE
  /\ IF ctxKind = "CollectAll"
     THEN /\ fulfilled' = Append(fulfilled, [how |-> "setValue", what |-> results])
          /\ UNCHANGED threw
     ELSE /\ threw' = TRUE
          /\ fulfilled' = IF ~threw
                          THEN Append(fulfilled, [how |-> "setValue", what |-> results])
                          ELSE fulfilled

\* a holder lets go of its shared_ptr: the creator when it returns, a
\* callback (the [ctx] capture of line 397) once it has run
Release(h) ==
  /\ h \in holders
  /\ IF h = Creator THEN TRUE ELSE cbpc[h] = "release"
  /\ holders' = holders \ {h}
  /\ cbpc' = IF h = Creator THEN cbpc ELSE [cbpc EXCEPT ![h] = "done"]
  /\ IF holders' = {}
     THEN ContextDestructor
     ELSE UNCHANGED <<threw, ctxAlive, fulfilled>>
  /\ UNCHANGED results
  /\ CollectFrame

NextCollect ==
  \/ \E i \in Inputs :
       \/ CollectAllSetPartialResult(i)
       \/ CollectSetPartialResult(i)
       \/ CollectSetException(i)
       \/ CollectStore(i)
  \/ \E h \in {Creator} \cup Inputs : Release(h)

SpecCollect == InitCollect /\ [][NextCollect]_vars

\* ================================================================ claims
\* every handle thread is outside the core's methods
Returned == \A t \in Handles : pc[t] \in {"idle", "gone"}

\* C1: the callback is invoked at most once, only after the Armed->Done
\* transition and only by (or, for a queued job, on behalf of) the one thread
\* whose maybeCallback performed that transition; no two threads both
\* dispatch.
C1_InvokedAtMostOnce ==
  /\ Len(dispatched) <= 1
  /\ Len(calls) <= 1
  /\ calls # <<>> =>
       /\ fsm_ = "Done"
       /\ dispatched # <<>>
       /\ calls[1].by \in {dispatched[1], "E"}
       /\ calls[1].by = "E" => submitted # <<>>

\* the part of C1 the compare-and-set decides: one dispatcher, and every
\* invocation is made by it or by the worker running the job it submitted
SingleDispatcher ==
  /\ Len(dispatched) <= 1
  /\ \A i \in 1..Len(calls) :
       /\ fsm_ = "Done"
       /\ dispatched # <<>>
       /\ calls[i].by \in {dispatched[1], "E"}

\* C2: with no executor bound, once every call has returned with both a
\* result and a callback set and active_ true, the state is Done and the
\* callback has been invoked exactly once; it is never invoked while no
\* callback is set; no run ends Armed and active.
C2_ExactlyOnce ==
  ~everBound =>
    /\ Len(calls) <= 1
    /\ callback_ = None => calls = <<>>
    /\ (Returned /\ active_ /\ fsm_ \in {"Armed", "Done"}) =>
         (fsm_ = "Done" /\ Len(calls) = 1)

\* both ingresses and an activate/deactivate pair have run, and the callback
\* was dispatched by the thread that lost no race
C2_Witness ==
  /\ ~everBound /\ Returned /\ active_
  /\ fsm_ = "Done" /\ Len(calls) = 1
  /\ activation = "activated"
  /\ dispatched = <<"P">>
  /\ thrown["C"] = None

\* C3 as stated: every invocation of the callback receives the Try of the one
\* store an ingress made to result_ (BrokenPromise when detachPromise made
\* it), and nothing else is ever stored.
C3_CallbackGetsSetResult ==
  /\ Len(given) <= 1
  /\ "P" \in detached => Len(given) = 1
  /\ \A i \in 1..Len(calls) : given # <<>> /\ calls[i].try = given[1].try
  /\ result_ = IF given = <<>> THEN None ELSE given[1].try

\* the invocations made from doCallback's catch block
CatchCalls == {i \in 1..Len(calls) : calls[i].from = "catch"}

\* C3 amended: as C3, except that an invocation from doCallback's catch block,
\* after add() threw, receives a Try carrying what add() threw, which also
\* replaces the stored result.
C3_CallbackGetsSetResultOrAddError ==
  /\ Len(given) <= 1
  /\ "P" \in detached => Len(given) = 1
  /\ \A i \in 1..Len(given) : given[i].by = "detachPromise" <=> given[i].try = BrokenPromise
  /\ \A i \in 1..Len(calls) :
       /\ given # <<>>
       /\ IF i \in CatchCalls
          THEN /\ calls[i].try \in {AddFailed, CallbackThrew}
               /\ calls[i].try = result_
               /\ submitted # <<>>
          ELSE calls[i].try = given[1].try
  /\ CatchCalls = {} => result_ = IF given = <<>> THEN None ELSE given[1].try

\* the callback has received the BrokenPromise that detachPromise stored
C3_Witness ==
  /\ Len(calls) = 1
  /\ calls[1].try = BrokenPromise
  /\ given = <<[try |-> BrokenPromise, by |-> "detachPromise"]>>
  /\ "P" \in detached

\* no executor job that will run the callback is pending or running
NoJob == queue = 0 /\ pc["E"] = "idle"

\* C4: the core is destroyed exactly once, when attached_ reaches 0 and not
\* before; it is destroyed once both handles have detached and no job is
\* left, never while a job is pending, and no thread is inside the core
\* after its destruction.
C4_DestroyedExactlyAtZero ==
  /\ destroyed <= 1
  /\ alive <=> destroyed = 0
  /\ destroyed = 1 <=> attached_ = 0
  /\ (detached = Handles /\ NoJob) => ~alive
  /\ ~NoJob => alive
  /\ \A t \in Threads : pc[t] \notin {"idle", "gone"} => alive

\* what holds of C4 whatever the executor does: at most one destruction,
\* at zero, never under a job and never under a thread inside the core
DestroyedSafely ==
  /\ destroyed <= 1
  /\ alive <=> destroyed = 0
  /\ destroyed = 1 <=> attached_ = 0
  /\ ~alive => detached = Handles
  /\ ~NoJob => alive
  /\ \A t \in Threads : pc[t] \notin {"idle", "gone"} => alive

\* C5: a setResult that finds a result, and a setCallback that finds a
\* callback, throws std::logic_error to its caller at once and changes
\* nothing of the core, dispatches nothing and invokes nothing.
C5_SecondCallThrows ==
  [][ /\ (SetResult("P") /\ fsm_ \in {"OnlyResult", "Armed", "Done"}) =>
           /\ thrown'["P"] = "logic_error"
           /\ pc'["P"] = "idle"
           /\ UNCHANGED <<coreVars, calls, dispatched, given, submitted, queue>>
      /\ (SetCallback("C") /\ fsm_ \in {"OnlyCallback", "Armed", "Done"}) =>
           /\ thrown'["C"] = "logic_error"
           /\ pc'["C"] = "idle"
           /\ UNCHANGED <<coreVars, calls, dispatched, given, submitted, queue>>
    ]_vars

\* both threads have had a second call refused
C5_Witness ==
  /\ thrown["P"] = "logic_error"
  /\ thrown["C"] = "logic_error"
  /\ fsm_ = "Done"

\* C6: a core that became Armed while deactivated stays Armed, with nothing
\* dispatched and nothing invoked, until active_ is set again; an activate()
\* that finds the core Armed returns with the state Done and the dispatch
\* made, and (no executor bound) the thread that dispatched has by its return
\* invoked the callback once with the stored result.
C6_DeactivatedUntilActivate ==
  /\ [](/\ activation = "inactive" => fsm_ = "Armed"
        /\ activation \in {"unarmed", "inactive"} =>
             (fsm_ # "Done" /\ calls = <<>> /\ dispatched = <<>>)
        /\ (~everBound /\ dispatched = <<"C">> /\ pc["C"] \in {"idle", "gone"}) =>
             /\ Len(calls) = 1
             /\ calls[1].by = "C"
             /\ calls[1].try = given[1].try)
  /\ [][(op["C"] = "activate" /\ state["C"] = "Armed" /\ pc'["C"] = "idle") =>
           (fsm_' = "Done" /\ dispatched' # <<>>)]_vars

\* the consumer's activate() has fired the callback of a core that had become
\* Armed while deactivated
C6_Witness ==
  /\ activation = "activated"
  /\ fsm_ = "Done"
  /\ dispatched = <<"C">>
  /\ Len(calls) = 1
  /\ Returned

\* the edges of the state machine (lines 37-48)
Edges ==
  { <<"Start", "OnlyCallback">>, <<"Start", "OnlyResult">>,
    <<"OnlyCallback", "Armed">>, <<"OnlyResult", "Armed">>, <<"Armed", "Done">> }

\* C7: the state word changes only along the five edges, so Done is terminal
\* and no state is revisited, and hasResult() never goes from true to false.
C7_OnlyEdges ==
  [][ /\ fsm_' # fsm_ => <<fsm_, fsm_'>> \in Edges
      /\ hasResult => hasResult' ]_vars

\* a core that went Start -> OnlyCallback -> Armed -> Done
C7_Witness ==
  /\ fsm_ = "Done"
  /\ Len(given) = 1 /\ given[1].by = "setResult"
  /\ dispatched = <<"P">>

\* C8: hasResult() is true exactly when result_ is engaged, so its assertion
\* !!result_ holds and detachPromise's !result_ is !hasResult().
C8_HasResultIffResult ==
  hasResult <=> result_ # None

\* a core whose result has been moved into the callback
C8_Witness ==
  /\ fsm_ = "Done"
  /\ calls # <<>>
  /\ result_ # None

\* C9: callback_ and context_ are held exactly while the callback is still to
\* be fired (OnlyCallback, Armed, and Done until the dispatch has invoked it);
\* a core that has fired its callback holds it no more.
C9_CallbackHeldIffPending ==
  LET pending == \/ fsm_ \in {"OnlyCallback", "Armed"}
                 \/ fsm_ = "Done" /\ calls = <<>>
  IN /\ callback_ # None <=> pending
     /\ context_ # None <=> pending

\* C10: on a core without a result, one setInterruptHandler(h) and one or
\* more raise(e), all returned: h is invoked exactly once, with the payload of the first
\* raise, by the thread of whichever of the two came second; a later raise
\* stores nothing and invokes nothing.
C10_HandlerInvokedOnce ==
  /\ handlerSets = 0 => handlerCalls = <<>>
  /\ handlerSets = 1 => Len(handlerCalls) <= 1
  /\ interrupt_ \in {None, firstRaise}
  /\ (handlerSets = 1 /\ raises >= 1 /\ raising = None /\ ~hasResult) =>
       /\ Len(handlerCalls) = 1
       /\ handlerCalls[1].e = firstRaise
       /\ handlerCalls[1].by = IF firstInterruptOp = "raise" THEN "P" ELSE "C"
       /\ interrupt_ = firstRaise

\* the handler was set first, raise() invoked it, and a second raise followed
C10_Witness ==
  /\ handlerSets = 1 /\ raises >= 2 /\ raising = None /\ ~hasResult
  /\ firstInterruptOp = "setInterruptHandler"
  /\ Len(handlerCalls) = 1
  /\ handlerCalls[1].by = "C"

\* ------------------------------------------------------------------ C11
\* C11 as stated: the interrupt handler is never invoked while the core
\* already has a result, under any interleaving of raise,
\* setInterruptHandler and setResult.
C11_HandlerNeverInvokedWithResult ==
  \A i \in 1..Len(handlerCalls) : ~handlerCalls[i].hadResult

\* C11: a raise or a setInterruptHandler whose check observes a result
\* stores no payload, installs no handler and invokes nothing; the handler
\* is invoked either on a core without a result or by a raise whose check
\* preceded the result.
C11_ObservedResultDropsInterrupt ==
  [][/\ (hasResult /\ (Raise("C") \/ SetInterruptHandler("P"))) =>
          /\ UNCHANGED <<interrupt_, interruptHandler_, handlerCalls, raising>>
          /\ pc' = pc
     /\ handlerCalls' # handlerCalls => (~hasResult \/ pc["C"] = "raise_store")]_vars

\* a raise and a setInterruptHandler both came after the result and left
\* nothing behind
C11_Witness ==
  /\ hasResult
  /\ raises = 1 /\ handlerSets = 1 /\ raising = None
  /\ given # <<>> /\ given[1].by = "setResult"
  /\ interrupt_ = None /\ interruptHandler_ = None /\ handlerCalls = <<>>

\* ------------------------------------------------------------------ C12
\* the executor threw out of add() without running the job
Rejected == submitted # <<>> /\ Kind(submitted[1].x) = "reject"

\* C12: when the bound executor rejects the job, the callback is invoked
\* exactly once, from doCallback's catch block on the thread that made the
\* Armed -> Done transition, with the Try carrying the submission error,
\* which has also replaced the stored result; no job ever runs it.
C12_RejectedRunsInlineOnce ==
  Rejected =>
    /\ Len(submitted) = 1 /\ queue = 0
    /\ Len(dispatched) = 1
    /\ \A i \in 1..Len(calls) : calls[i].from = "catch"
    /\ IF pc[dispatched[1]] = "dc_catch"
       THEN calls = <<>>
       ELSE /\ Len(calls) = 1
            /\ calls[1].by = dispatched[1]
            /\ calls[1].try = AddFailed
            /\ result_ = AddFailed

\* a result given by setResult was replaced after the rejection and the
\* dispatching thread has returned from the catch block
C12_Witness ==
  /\ Rejected
  /\ given # <<>> /\ given[1].try = "Value"
  /\ result_ = AddFailed
  /\ Len(calls) = 1 /\ calls[1].try = AddFailed
  /\ pc[dispatched[1]] = "idle"

\* ------------------------------------------------------------------ C13
\* C13: when the bound executor rejects the job, attached_ is, once
\* doCallback has returned, what it was before dispatch (one per handle
\* still attached), and the core is destroyed once both handles have
\* detached.
C13_RejectionLeavesAttached ==
  (Rejected /\ pc[dispatched[1]] \notin {"dc_add", "dc_catch"}) =>
    /\ attached_ = InitialAttached - Cardinality(detached)
    /\ detached = Handles => ~alive

\* ------------------------------------------------------------------ C14
\* the producer is inside the maybeCallback() of its own setResult
ProducerDispatching ==
  /\ op["P"] \in {"setResult", "detachPromise"}
  /\ pc["P"] \in {"mc_read", "mc_active", "mc_update"}

\* C14: detachFuture first sets active_ and enters maybeCallback(), with
\* attached_ untouched; by the time it reaches detachOne() the core is active
\* and no longer waits in Armed (unless the producer's own setResult is just
\* then dispatching), also after a deactivate(); without a callback nothing
\* is dispatched, submitted or invoked, and the core is destroyed once both
\* handles have detached.
C14_DetachFutureDispatchesFirst ==
  /\ [](/\ pc["C"] \in {"detachOne", "gone"} =>
             /\ active_
             /\ fsm_ = "Armed" => ProducerDispatching
             /\ callback_ = None =>
                  (dispatched = <<>> /\ calls = <<>> /\ submitted = <<>>)
        /\ (detached = Handles /\ callback_ = None) => ~alive)
  /\ [][DetachFuture("C") =>
          (active_' /\ attached_' = attached_ /\ pc'["C"] = "mc_read")]_vars
  /\ [][(op["C"] = "detachFuture" /\ state["C"] = "Armed" /\ pc'["C"] = "detachOne") =>
          (fsm_' = "Done" /\ dispatched' # <<>>)]_vars

\* the consumer's detachFuture has dispatched the callback of a core that was
\* Armed and deactivated, and has not yet released its attachment
C14_Witness ==
  /\ op["C"] = "detachFuture" /\ pc["C"] = "detachOne"
  /\ activation = "activated"
  /\ fsm_ = "Done" /\ dispatched = <<"C">>
  /\ Len(calls) = 1
  /\ "C" \notin detached /\ attached_ >= 1

\* ------------------------------------------------------------------ C15
\* C15: what the callback throws is never stored as the result and never
\* leads to a second invocation, whether the callback ran on the
\* dispatching thread, on the executor's worker or inside add().
C15_CallbackFailureNotReinjected ==
  /\ result_ # CallbackThrew
  /\ \A i \in 1..Len(calls) : calls[i].try # CallbackThrew
  /\ ~Rejected => Len(calls) <= 1

\* ------------------------------------------------------------------ C16
\* some input of the collect completed with an exception
SomeInputFailed == \E i \in Inputs : inputs[i].tag = "Error"

\* C16: a CollectVariadicContext fulfils its promise exactly once by the time
\* it is destroyed, and never twice: with one input's exception if some
\* input failed, and with the tuple of every input's value if none did.
C16_CollectFulfilledOnce ==
  ctxKind = "Collect" =>
    /\ Len(fulfilled) <= 1
    /\ ~ctxAlive =>
         /\ Len(fulfilled) = 1
         /\ IF SomeInputFailed
            THEN /\ fulfilled[1].how = "setException"
                 /\ \E i \in Inputs : /\ inputs[i].tag = "Error"
                                      /\ fulfilled[1].what = exception(inputs[i])
            ELSE /\ fulfilled[1].how = "setValue"
                 /\ fulfilled[1].what = [k \in Slots |-> [tag |-> "value", of |-> k + 1]]

\* ------------------------------------------------------------------ C17
\* C17: a CollectAllVariadicContext fulfils its promise exactly once, in its
\* destructor, after every input's callback has written its slot and
\* released the context; component i of the tuple is the Try input i
\* completed with, value or exception.
C17_CollectAllDeliversEveryTry ==
  ctxKind = "CollectAll" =>
    /\ ctxAlive => fulfilled = <<>>
    /\ ~ctxAlive =>
         /\ Len(fulfilled) = 1
         /\ \A i \in Inputs : cbpc[i] = "done"
         /\ fulfilled[1].how = "setValue"
         /\ \A i \in Inputs : fulfilled[1].what[i - 1] = inputs[i]

\* a collectAll whose inputs did not all succeed has delivered its tuple
C17_Witness ==
  /\ ctxKind = "CollectAll"
  /\ ~ctxAlive
  /\ Len(fulfilled) = 1
  /\ inputs[1].tag = "Error"
  /\ inputs[NInputs].tag = "Value"

\* ------------------------------------------------------------------ C18
\* add() / addWithPriority() returned without throwing: the executor queued
\* the job, or ran it inside the call and the callback returned
Accepted ==
  /\ submitted # <<>>
  /\ \/ Kind(submitted[1].x) = "queue"
     \/ Kind(submitted[1].x) = "inline" /\ ~Throws(callback_)

\* the submitted job has not yet finished
JobPending ==
  \/ queue > 0
  \/ \E t \in Threads : pc[t] \in {"job_call", "job_detach", "job_detach_exc"}

\* one attachment for each handle that has not detached
HandleAttachments == InitialAttached - Cardinality(detached)

\* what every state shows of a dispatch through, or without, an executor
BoundExecutorRunsJob ==
  /\ \A t \in Handles : pc[t] = "dc_add" =>
       /\ attached_ = HandleAttachments + 1
       /\ submitted = <<>> /\ calls = <<>>
  /\ Accepted =>
       /\ Len(submitted) = 1
       /\ submitted[1].how = IF OnePriority(submitted[1].x) THEN "add" ELSE "addWithPriority"
       /\ submitted[1].priority \in IF OnePriority(submitted[1].x) THEN {None} ELSE Priorities
       /\ Len(calls) <= 1
       /\ \A i \in 1..Len(calls) :
            /\ calls[i].from = "job"
            /\ Kind(submitted[1].x) = "queue" => calls[i].by = "E"
       /\ IF JobPending
          THEN alive /\ attached_ = HandleAttachments + 1
          ELSE Len(calls) = 1 /\ attached_ = HandleAttachments
       /\ (detached = Handles /\ ~JobPending) => ~alive
  /\ ~everBound =>
       /\ submitted = <<>> /\ queue = 0
       /\ attached_ = HandleAttachments
       /\ \A i \in 1..Len(calls) : calls[i].from = "inline" /\ calls[i].by = dispatched[1]
       /\ (dispatched # <<>> /\ pc[dispatched[1]] \notin {"dc_snapshot", "dc_call"}) =>
            Len(calls) = 1

C19_CallbackRunsInCapturedContext ==
  /\ context_ \in {None, InitialContext["C"]}
  /\ \A i \in 1..Len(calls) : calls[i].ctx = context_
  /\ \A t \in Threads : pc[t] \in {"idle", "gone"} => ambient[t] = InitialContext[t]

\* ------------------------------------------------------------------ C20
\* C20: from either constructor, attached_ stays within 0..3; it changes by
\* +1, or by -1 from a value of at least 1 to a value of at most 2 (the
\* assertions of detachOne); the core is deleted at most once, and
\* attached_ is 0 when it is and from then on.
C20_AttachedInRange ==
  /\ [](/\ attached_ \in 0..3
        /\ destroyed <= 1
        /\ ~alive => attached_ = 0)
  /\ [][/\ attached_' # attached_ =>
             \/ attached_' = attached_ + 1
             \/ attached_ >= 1 /\ attached_' = attached_ - 1 /\ attached_' <= 2
        /\ (alive /\ ~alive') => attached_' = 0]_vars

\* a default-constructed core holds a queued executor job beside its two
\* handles
C20_Witness ==
  /\ attached_ = 3
  /\ queue = 1
  /\ detached = {}

====
